---- MODULE Spec2Model ----
(***************************************************************************)
(* A model of src/trading_bot.py: one invocation of main() is one cycle    *)
(* (get_okx_data, analyze_news_sentiment, trading_decision, the report     *)
(* record, save_to_google_sheets); cycles repeat on an external schedule.  *)
(*                                                                         *)
(* Numbers.  Snapshot fields are integers (price units).  The prices that  *)
(* trading_decision computes are kept exactly, in 1/10000 of a unit        *)
(* (cp * 0.9995 is cp * 9995); round(x, 2) turns them into cents.  A float *)
(* NaN (an indicator whose window is longer than the series) is the value  *)
(* NaN, for which every comparison is false, as in Python.                 *)
(* Optional values: None is <<>>, a present value x is <<x>>.              *)
(***************************************************************************)
EXTENDS Integers, Sequences, FiniteSets, TLC

VARIABLES
    pc,           \* where the invocation of main() stands
    cycle,        \* invocations started so far (the external schedule's ticks)
    day,          \* the UTC date, as a day number
    tech,         \* main: tech_data, None or Some(snapshot)
    feed,         \* analyze_news_sentiment: feed.entries
    idx,          \* analyze_news_sentiment: position of the for loop
    total_score,  \* analyze_news_sentiment: total_score
    news_score,   \* main: news_score
    dec,          \* main: what trading_decision returned, None before the call
    data,         \* main: the report record, None before it is built
    ws,           \* save_to_google_sheets: the worksheet in hand (its title)
    sheets,       \* the spreadsheet: worksheet title -> its rows
    save_ret,     \* what save_to_google_sheets returned, None before it returns
    out,          \* the lines this invocation printed
    steps,        \* history: the stages this invocation entered, in order
    faults        \* history: the fault domains that failed in this invocation

vars == <<pc, cycle, day, tech, feed, idx, total_score, news_score,
          dec, data, ws, sheets, save_ret, out, steps, faults>>

---------------------------------------------------------------------------
(* Bounds of the model *)
MaxCycles == 2
MaxDays == 2
MaxFeed == 11
MaxNews == 3

---------------------------------------------------------------------------
(* Values *)
None == <<>>
Some(x) == <<x>>
NaN == -(999999)

Lt(a, b) == a # NaN /\ b # NaN /\ a < b
Gt(a, b) == a # NaN /\ b # NaN /\ a > b
Le(a, b) == a # NaN /\ b # NaN /\ a <= b
Ge(a, b) == a # NaN /\ b # NaN /\ a >= b

\* Python's max(a, b) and min(a, b): a, unless b compares beyond it.
PyMax(a, b) == IF Gt(b, a) THEN b ELSE a
PyMin(a, b) == IF Lt(b, a) THEN b ELSE a

\* sum() of a list of booleans
RECURSIVE PySum(_)
PySum(bs) == IF bs = <<>> THEN 0
             ELSE (IF Head(bs) THEN 1 ELSE 0) + PySum(Tail(bs))

\* sep.join(parts): the parts with the separator between them
RECURSIVE Join(_, _)
Join(sep, parts) ==
    IF Len(parts) <= 1 THEN parts
    ELSE <<Head(parts), sep>> \o Join(sep, Tail(parts))

Scale == 10000

\* a snapshot field, in the unit of the computed prices
Px(v) == IF v = NaN THEN NaN ELSE v * Scale

---------------------------------------------------------------------------
(* trading_decision *)

BuyCond(t) ==
    << Le(t.current_price, t.bb_lower) /\ Lt(t.rsi, 35),
       Gt(t.macd_hist, t.macd_signal),
       Gt(t.volume, 20000),
       Gt(t.current_price, t.vwap) >>

SellCondVwapFlipped(t) ==
    << Ge(t.current_price, t.bb_upper) /\ Gt(t.rsi, 65),
       Lt(t.macd_hist, t.macd_signal),
       Gt(t.volume, 20000),
       Gt(t.current_price, t.vwap) >>

SellCond(t) ==
    << Ge(t.current_price, t.bb_upper) /\ Gt(t.rsi, 65),
       Lt(t.macd_hist, t.macd_signal),
       Gt(t.volume, 20000),
       Lt(t.current_price, t.vwap) >>

ErrorDecision ==
    [decision |-> "ERROR", entry |-> None, tp |-> None, sl |-> None,
     rr |-> "", logic |-> <<"No technical data">>]

\* the if / elif / else of the technical vote, before the override
TechnicalVoteFourOfFour(t, ns) ==
    LET cp == t.current_price IN
    IF PySum(BuyCond(t)) > 3 THEN
        [decision |-> "BUY", entry |-> Some(cp * 9995),
         sl |-> Some(PyMax(Px(t.bb_lower), cp * 9980)),
         tp |-> Some(IF ns > 2 THEN cp * 10050 ELSE cp * 10030),
         rr |-> IF ns > 2 THEN "1:2.5" ELSE "1:1.5",
         logic |-> <<"Technical buy signal">>]
    ELSE IF PySum(SellCond(t)) >= 3 THEN
        [decision |-> "SELL", entry |-> Some(cp * 10005),
         sl |-> Some(PyMin(Px(t.bb_upper), cp * 10020)),
         tp |-> Some(IF ns < -2 THEN cp * 9950 ELSE cp * 9970),
         rr |-> IF ns < -2 THEN "1:2.5" ELSE "1:1.5",
         logic |-> <<"Technical sell signal">>]
    ELSE
        [decision |-> "HOLD", entry |-> None, sl |-> None, tp |-> None,
         rr |-> "", logic |-> <<"No strong signal">>]

TechnicalVote(t, ns) ==
    LET cp == t.current_price IN
    IF PySum(BuyCond(t)) >= 3 THEN
        [decision |-> "BUY", entry |-> Some(cp * 9995),
         sl |-> Some(PyMax(Px(t.bb_lower), cp * 9980)),
         tp |-> Some(IF ns > 2 THEN cp * 10050 ELSE cp * 10030),
         rr |-> IF ns > 2 THEN "1:2.5" ELSE "1:1.5",
         logic |-> <<"Technical buy signal">>]
    ELSE IF PySum(SellCond(t)) >= 3 THEN
        [decision |-> "SELL", entry |-> Some(cp * 10005),
         sl |-> Some(PyMin(Px(t.bb_upper), cp * 10020)),
         tp |-> Some(IF ns < -2 THEN cp * 9950 ELSE cp * 9970),
         rr |-> IF ns < -2 THEN "1:2.5" ELSE "1:1.5",
         logic |-> <<"Technical sell signal">>]
    ELSE
        [decision |-> "HOLD", entry |-> None, sl |-> None, tp |-> None,
         rr |-> "", logic |-> <<"No strong signal">>]

\* the override sits in the else branch: it is tried only on a HOLD vote
OverrideReachedAlways(d) == TRUE

OverrideReached(d) == d.decision = "HOLD"

SentimentOverride(d, t, ns) ==
    LET cp == t.current_price IN
    IF ~OverrideReached(d) THEN d
    ELSE IF ns >= 3 THEN
        [decision |-> "BUY", entry |-> Some(cp * Scale),
         sl |-> Some(cp * 9980), tp |-> Some(cp * 10040), rr |-> "1:2",
         logic |-> Append(d.logic, "Strong bullish news")]
    ELSE IF ns <= -3 THEN
        [decision |-> "SELL", entry |-> Some(cp * Scale),
         sl |-> Some(cp * 10020), tp |-> Some(cp * 9960), rr |-> "1:2",
         logic |-> Append(d.logic, "Strong bearish news")]
    ELSE d

TrendAnnotationAlways(d, t) ==
    [d EXCEPT !.logic = Append(@, IF Gt(t.current_price, t.sma50)
                                  THEN "Bullish trend" ELSE "Bearish trend")]

TrendAnnotation(d, t) ==
    IF d.decision # "HOLD"
    THEN [d EXCEPT !.logic = Append(@, IF Gt(t.current_price, t.sma50)
                                       THEN "Bullish trend"
                                       ELSE "Bearish trend")]
    ELSE d

\* trading_decision(tech, news_score); tech is None or Some(snapshot)
trading_decision(tk, ns) ==
    IF tk = None THEN ErrorDecision
    ELSE LET t == tk[1]
             d == TrendAnnotation(SentimentOverride(TechnicalVote(t, ns), t, ns), t)
         IN [d EXCEPT !.logic = Join(" | ", @)]

---------------------------------------------------------------------------
(* analyze_news_sentiment *)

\* A feed entry: pub is "missing" (no published_parsed attribute),
\* "unparsed" (published_parsed is there and is None: the date did not
\* parse) or "ok"; age is utcnow - pub_time in hours; title is None (no
\* title attribute) or Some(its characters); pol is TextBlob's polarity
\* of the title, in hundredths.
K == 10
MaxAgeHours == 24

UpperChars == <<"D", "E", "F", "G", "L", "O", "R", "A", "W", "M">>
LowerChars == <<"d", "e", "f", "g", "l", "o", "r", "a", "w", "m">>

LowerChar(c) ==
    IF \E i \in DOMAIN UpperChars : UpperChars[i] = c
    THEN LowerChars[CHOOSE i \in DOMAIN UpperChars : UpperChars[i] = c]
    ELSE c

\* text.lower()
Lower(s) == [i \in DOMAIN s |-> LowerChar(s[i])]

\* kw in text
Contains(kw, s) ==
    \E i \in 1..(Len(s) - Len(kw) + 1) : SubSeq(s, i, i + Len(kw) - 1) = kw

high_impact_kws ==
    << <<"f", "e", "d">>,
       <<"i", "n", "f", "l", "a", "t", "i", "o", "n">>,
       <<"r", "a", "t", "e">>,
       <<"i", "n", "t", "e", "r", "e", "s", "t">>,
       <<"w", "a", "r">>,
       <<"g", "o", "l", "d">>,
       <<"d", "o", "l", "l", "a", "r">> >>

HighImpact(text) ==
    \E k \in DOMAIN high_impact_kws : Contains(high_impact_kws[k], Lower(text))

BaseScore(pol) == IF pol > 10 THEN 1 ELSE IF pol < -10 THEN -1 ELSE 0

\* feed.entries[:10]
EntriesNoCap(entries) == entries

Entries(entries) ==
    SubSeq(entries, 1, IF Len(entries) < K THEN Len(entries) ELSE K)

\* One pass of the loop body over entry e: "skip" (continue), "raise" (an
\* exception leaves the loop) or "add" with the entry's score.
LoopBody(e) ==
    IF e.pub = "missing" THEN [kind |-> "skip", score |-> 0]
    ELSE IF e.pub = "unparsed" THEN [kind |-> "raise", score |-> 0]
    ELSE IF e.age > MaxAgeHours THEN [kind |-> "skip", score |-> 0]
    ELSE IF e.title = None THEN [kind |-> "raise", score |-> 0]
    ELSE [kind |-> "add",
          score |-> IF HighImpact(e.title[1])
                    THEN BaseScore(e.pol) * 2 ELSE BaseScore(e.pol)]

---------------------------------------------------------------------------
(* main: the report record *)

\* Python's truth of an optional number: None and 0 are false
Truthy(o) == o # None /\ o[1] # 0

\* round(x, 2) of a price kept in 1/10000: the nearest cent, ties to even
Round2(x) ==
    IF x = NaN THEN NaN
    ELSE LET q == x \div 100
             r == x % 100
         IN IF r < 50 THEN q
            ELSE IF r > 50 THEN q + 1
            ELSE IF q % 2 = 0 THEN q ELSE q + 1

\* round(v, 2) if v else None
Rounded(o) == IF Truthy(o) THEN Some(Round2(o[1])) ELSE None

\* tech_data[f] if tech_data else None, for the nine snapshot fields
FieldDefaultZero(tk, f) == IF tk # None THEN Some(tk[1][f]) ELSE Some(0)

Field(tk, f) == IF tk # None THEN Some(tk[1][f]) ELSE None

BuildRecord(tk, ns, d, now) ==
    [timestamp   |-> now,
     price       |-> Field(tk, "current_price"),
     vwap        |-> Field(tk, "vwap"),
     rsi         |-> Field(tk, "rsi"),
     bb_upper    |-> Field(tk, "bb_upper"),
     bb_lower    |-> Field(tk, "bb_lower"),
     macd_hist   |-> Field(tk, "macd_hist"),
     macd_signal |-> Field(tk, "macd_signal"),
     sma50       |-> Field(tk, "sma50"),
     volume      |-> Field(tk, "volume"),
     news_score  |-> ns,
     decision    |-> d.decision,
     entry       |-> Rounded(d.entry),
     take_profit |-> Rounded(d.tp),
     stop_loss   |-> Rounded(d.sl),
     risk_ratio  |-> d.rr,
     logic       |-> d.logic]

---------------------------------------------------------------------------
(* save_to_google_sheets: the rows *)

Header ==
    <<"Timestamp", "Price", "VWAP", "RSI", "BB Upper", "BB Lower",
      "MACD Hist", "MACD Signal", "SMA50", "Volume", "News Score",
      "Decision", "Entry", "Take Profit", "Stop Loss", "Risk Ratio", "Logic">>

\* a cell as the sheet keeps it: None is an empty cell
Cell(o) == IF o = None THEN "" ELSE ToString(o[1])

Row(r) ==
    <<ToString(r.timestamp), Cell(r.price), Cell(r.vwap), Cell(r.rsi),
      Cell(r.bb_upper), Cell(r.bb_lower), Cell(r.macd_hist),
      Cell(r.macd_signal), Cell(r.sma50), Cell(r.volume),
      ToString(r.news_score), r.decision, Cell(r.entry),
      Cell(r.take_profit), Cell(r.stop_loss), r.risk_ratio,
      ToString(r.logic)>>

\* worksheet.append_row(row)
AppendRow(sh, title, row) == [sh EXCEPT ![title] = Append(@, row)]

\* sheet.add_worksheet(title=today, ...): a new, empty worksheet
AddWorksheet(sh, title) ==
    [t \in DOMAIN sh \cup {title} |-> IF t \in DOMAIN sh THEN sh[t] ELSE <<>>]

---------------------------------------------------------------------------
(* The cycle *)

Init ==
    /\ pc = "idle"
    /\ cycle = 0
    /\ day = 1
    /\ tech = None
    /\ feed = <<>>
    /\ idx = 0
    /\ total_score = 0
    /\ news_score = 0
    /\ dec = None
    /\ data = None
    /\ ws = 0
    /\ sheets = <<>>
    /\ save_ret = None
    /\ out = <<>>
    /\ steps = <<>>
    /\ faults = {}

\* The external schedule starts main(): nothing of the last invocation is
\* left but the spreadsheet.  The date may have moved on.
StartCycle ==
    /\ pc \in {"idle", "done", "crashed"}
    /\ cycle < MaxCycles
    /\ cycle' = cycle + 1
    /\ \E d \in {day, day + 1} : d <= MaxDays /\ day' = d
    /\ out' = << <<"Starting trading analysis...">> >>
    /\ pc' = "fetch"
    /\ tech' = None /\ feed' = <<>> /\ idx' = 0 /\ total_score' = 0
    /\ news_score' = 0 /\ dec' = None /\ data' = None /\ ws' = 0
    /\ save_ret' = None /\ steps' = <<>> /\ faults' = {}
    /\ UNCHANGED sheets

\* except Exception as e: print(...); return None
OkxOnException == [ret |-> None, pc |-> "news"]

\* tech_data = get_okx_data(): a snapshot of T, or None when the exchange
\* answers with an error code, or an exception on the way
GetOkxData(T) ==
    /\ pc = "fetch"
    /\ steps' = Append(steps, "fetch")
    /\ \/ \E t \in T :
            /\ tech' = Some(t)
            /\ pc' = "news"
            /\ UNCHANGED <<out, faults>>
       \/ /\ tech' = None
          /\ pc' = "news"
          /\ faults' = faults \cup {"market"}
          /\ UNCHANGED out
       \/ /\ tech' = OkxOnException.ret
          /\ pc' = OkxOnException.pc
          /\ out' = Append(out, <<"Error getting OKX data: ", "exception">>)
          /\ faults' = faults \cup {"market"}
    /\ UNCHANGED <<cycle, day, feed, idx, total_score, news_score, dec,
                   data, ws, sheets, save_ret>>

\* except Exception as e: print(...); return 0
NewsOnException == [ret |-> 0, pc |-> "decide"]

NewsRaise ==
    /\ news_score' = NewsOnException.ret
    /\ pc' = NewsOnException.pc
    /\ out' = Append(out, <<"News error: ", "exception">>)
    /\ faults' = faults \cup {"news"}

\* feed = feedparser.parse(url); total_score = 0
ParseFeed(F) ==
    /\ pc = "news"
    /\ steps' = Append(steps, "news")
    /\ \/ \E f \in F :
            /\ feed' = f
            /\ idx' = 1
            /\ total_score' = 0
            /\ pc' = "news_loop"
            /\ UNCHANGED <<news_score, out, faults>>
       \/ /\ NewsRaise
          /\ UNCHANGED <<feed, idx, total_score>>
    /\ UNCHANGED <<cycle, day, tech, dec, data, ws, sheets, save_ret>>

\* one iteration of: for entry in feed.entries[:10]
NewsLoop ==
    /\ pc = "news_loop"
    /\ idx <= Len(Entries(feed))
    /\ LET b == LoopBody(Entries(feed)[idx]) IN
         \/ /\ b.kind = "skip"
            /\ idx' = idx + 1
            /\ UNCHANGED <<total_score, news_score, pc, out, faults>>
         \/ /\ b.kind = "add"
            /\ total_score' = total_score + b.score
            /\ idx' = idx + 1
            /\ UNCHANGED <<news_score, pc, out, faults>>
         \/ /\ b.kind = "raise"
            /\ NewsRaise
            /\ UNCHANGED <<idx, total_score>>
    /\ UNCHANGED <<cycle, day, tech, feed, dec, data, ws, sheets, save_ret,
                   steps>>

\* return total_score
NewsReturn ==
    /\ pc = "news_loop"
    /\ idx > Len(Entries(feed))
    /\ news_score' = total_score
    /\ pc' = "decide"
    /\ UNCHANGED <<cycle, day, tech, feed, idx, total_score, dec, data, ws,
                   sheets, save_ret, out, steps, faults>>

\* decision, entry, tp, sl, rr, logic = trading_decision(tech_data, news_score)
Decide ==
    /\ pc = "decide"
    /\ dec' = Some(trading_decision(tech, news_score))
    /\ steps' = Append(steps, "decide")
    /\ pc' = "build"
    /\ UNCHANGED <<cycle, day, tech, feed, idx, total_score, news_score,
                   data, ws, sheets, save_ret, out, faults>>

\* data = {...}
BuildData ==
    /\ pc = "build"
    /\ data' = Some(BuildRecord(tech, news_score, dec[1], <<day, cycle>>))
    /\ pc' = "save"
    /\ UNCHANGED <<cycle, day, tech, feed, idx, total_score, news_score,
                   dec, ws, sheets, save_ret, out, steps, faults>>

---------------------------------------------------------------------------
(* save_to_google_sheets *)

\* except Exception as e: print(...); return False
SaveOnExceptionPropagates == [ret |-> None, pc |-> "crashed"]

SaveOnExceptionRetries == [ret |-> None, pc |-> "save"]

SaveOnException == [ret |-> Some(FALSE), pc |-> "report"]

SaveRaise ==
    /\ save_ret' = SaveOnException.ret
    /\ pc' = SaveOnException.pc
    /\ out' = Append(out, <<"Error saving to Google Sheets: ", "exception">>)
    /\ faults' = faults \cup {"sink"}

\* client = auth_google_sheets(); sheet = client.open_by_key(...); today = ...
SaveOpen ==
    /\ pc = "save"
    /\ steps' = Append(steps, "sink")
    /\ \/ /\ ws' = day
          /\ pc' = "lookup"
          /\ UNCHANGED <<save_ret, out, faults>>
       \/ /\ SaveRaise
          /\ UNCHANGED ws
    /\ UNCHANGED <<cycle, day, tech, feed, idx, total_score, news_score,
                   dec, data, sheets>>

\* try: worksheet = sheet.worksheet(today) / except: (any failure of the
\* lookup, the worksheet being there or not, goes on to add_worksheet)
SaveLookup ==
    /\ pc = "lookup"
    /\ \/ /\ ws \in DOMAIN sheets
          /\ pc' = "row"
       \/ /\ pc' = "add_ws"
    /\ UNCHANGED <<cycle, day, tech, feed, idx, total_score, news_score,
                   dec, data, ws, sheets, save_ret, out, steps, faults>>

\* worksheet = sheet.add_worksheet(title=today, rows=1000, cols=20): the
\* service refuses a title that is taken
SaveAddWorksheet ==
    /\ pc = "add_ws"
    /\ \/ /\ ws \notin DOMAIN sheets
          /\ sheets' = AddWorksheet(sheets, ws)
          /\ pc' = "header"
          /\ UNCHANGED <<save_ret, out, faults>>
       \/ /\ SaveRaise
          /\ UNCHANGED sheets
    /\ UNCHANGED <<cycle, day, tech, feed, idx, total_score, news_score,
                   dec, data, ws, steps>>

\* worksheet.append_row(header)
SaveHeader ==
    /\ pc = "header"
    /\ \/ /\ sheets' = AppendRow(sheets, ws, Header)
          /\ pc' = "row"
          /\ UNCHANGED <<save_ret, out, faults>>
       \/ /\ SaveRaise
          /\ UNCHANGED sheets
    /\ UNCHANGED <<cycle, day, tech, feed, idx, total_score, news_score,
                   dec, data, ws, steps>>

\* row = [...]; worksheet.append_row(row); return True
SaveRow ==
    /\ pc = "row"
    /\ \/ /\ sheets' = AppendRow(sheets, ws, Row(data[1]))
          /\ save_ret' = Some(TRUE)
          /\ pc' = "report"
          /\ UNCHANGED <<out, faults>>
       \/ /\ SaveRaise
          /\ UNCHANGED sheets
    /\ UNCHANGED <<cycle, day, tech, feed, idx, total_score, news_score,
                   dec, data, ws, steps>>

\* if save_to_google_sheets(data): print(...) else: print(...)
Report ==
    /\ pc = "report"
    /\ out' = Append(out, IF save_ret = Some(TRUE)
                          THEN <<"Data saved successfully!">>
                          ELSE <<"Failed to save data">>)
    /\ pc' = "done"
    /\ UNCHANGED <<cycle, day, tech, feed, idx, total_score, news_score,
                   dec, data, ws, sheets, save_ret, steps, faults>>

---------------------------------------------------------------------------
(* Inputs *)

\* the snapshots get_okx_data may return: each field around the values the
\* conditions compare it with, a window indicator also NaN
Snapshots ==
    [current_price : {0, 100},
     vwap          : {99, 100, 101},
     rsi           : {NaN, 30, 50, 70},
     bb_upper      : {NaN, 0, 100, 110},
     bb_lower      : {NaN, 0, 90, 100},
     macd_hist     : {0, 1},
     macd_signal   : {0, 1},
     sma50         : {NaN, 95, 105},
     volume        : {20000, 25000}]

ScenarioA ==
    [current_price |-> 100, bb_lower |-> 100, rsi |-> 30, macd_hist |-> 1,
     macd_signal |-> 0, volume |-> 25000, vwap |-> 99, bb_upper |-> 110,
     sma50 |-> 95]

Quiet ==
    [current_price |-> 100, bb_lower |-> 90, rsi |-> 50, macd_hist |-> 0,
     macd_signal |-> 0, volume |-> 20000, vwap |-> 100, bb_upper |-> 110,
     sma50 |-> 105]

CycleSnapshots == {ScenarioA, Quiet}

NewsScores == (0 - MaxNews)..MaxNews

Title(chars) == Some(chars)

Entry(pub, age, title, pol) ==
    [pub |-> pub, age |-> age, title |-> title, pol |-> pol]

FedRaises == Entry("ok", 0, Title(<<"F", "e", "d">>), 50)
OilSlips == Entry("ok", 24, Title(<<"o", "i", "l">>), -50)
GoldFalls == Entry("ok", 1, Title(<<"G", "O", "L", "D">>), -11)
OilUp == Entry("ok", 2, Title(<<"o", "i", "l">>), 11)
WarmDay == Entry("ok", 3, Title(<<"W", "a", "r", "m">>), 10)
StaleFed == Entry("ok", 25, Title(<<"F", "e", "d">>), 50)
Undated == Entry("missing", 0, Title(<<"F", "e", "d">>), 50)
BadDate == Entry("unparsed", 0, Title(<<"F", "e", "d">>), 50)
Untitled == Entry("ok", 0, None, 0)
StaleUntitled == Entry("ok", 30, None, 0)

Entries9 ==
    {FedRaises, OilSlips, GoldFalls, OilUp, WarmDay, StaleFed, Undated,
     BadDate, Untitled, StaleUntitled}

Repeat(e, n) == [i \in 1..n |-> e]

\* the feeds of at most MaxFeed entries made of a run of one entry
\* followed by a run of another
Feeds ==
    {Repeat(a, n) \o Repeat(b, m) :
        <<a, b, n, m>> \in {q \in Entries9 \X Entries9 \X (0..MaxFeed) \X (0..MaxFeed) :
                               q[3] + q[4] <= MaxFeed}}

CycleFeeds == {<<>>, <<FedRaises, OilUp>>, <<FedRaises, BadDate>>}

---------------------------------------------------------------------------
(* Specifications *)

\* the cycles of main()
Next ==
    \/ StartCycle
    \/ GetOkxData(CycleSnapshots)
    \/ ParseFeed(CycleFeeds)
    \/ NewsLoop
    \/ NewsReturn
    \/ Decide
    \/ BuildData
    \/ SaveOpen
    \/ SaveLookup
    \/ SaveAddWorksheet
    \/ SaveHeader
    \/ SaveRow
    \/ Report

Spec == Init /\ [][Next]_vars

\* main() is straight-line code: a step that can be taken is taken
FairSpec == Spec /\ WF_vars(Next)

\* trading_decision and the report record, over every snapshot and score
InitDecision ==
    /\ pc = "decide"
    /\ cycle = 1
    /\ day = 1
    /\ tech \in {None} \cup {Some(t) : t \in Snapshots}
    /\ feed = <<>>
    /\ idx = 1
    /\ total_score = 0
    /\ news_score \in NewsScores
    /\ dec = None
    /\ data = None
    /\ ws = 0
    /\ sheets = <<>>
    /\ save_ret = None
    /\ out = << <<"Starting trading analysis...">> >>
    /\ steps = <<"fetch", "news">>
    /\ faults = {}

NextDecision == Decide \/ BuildData

SpecDecision == InitDecision /\ [][NextDecision]_vars

\* analyze_news_sentiment, over the feeds
InitNews ==
    /\ pc = "news"
    /\ cycle = 1
    /\ day = 1
    /\ tech = None
    /\ feed = <<>>
    /\ idx = 0
    /\ total_score = 0
    /\ news_score = 0
    /\ dec = None
    /\ data = None
    /\ ws = 0
    /\ sheets = <<>>
    /\ save_ret = None
    /\ out = << <<"Starting trading analysis...">> >>
    /\ steps = <<"fetch">>
    /\ faults = {}

NextNews == ParseFeed(Feeds) \/ NewsLoop \/ NewsReturn

SpecNews == InitNews /\ [][NextNews]_vars

---------------------------------------------------------------------------
(* Properties of trading_decision and of the report record (SpecDecision) *)

Holding(conds) == Cardinality({i \in DOMAIN conds : conds[i]})

BuyVotes == Holding(BuyCond(tech[1]))
SellVotes == Holding(SellCond(tech[1]))

Kind == dec[1].decision

Last(s) == s[Len(s)]

Trend(t) == IF Gt(t.current_price, t.sma50) THEN "Bullish trend" ELSE "Bearish trend"

\* C1: for a present snapshot the kind is BUY when at least 3 BUY conditions
\* hold, else SELL when at least 3 SELL conditions hold, else BUY when
\* NewsScore >= 3, else SELL when NewsScore <= -3, else HOLD.
C1_KindOfDecision ==
    (dec # None /\ tech # None) =>
        Kind = IF BuyVotes >= 3 THEN "BUY"
               ELSE IF SellVotes >= 3 THEN "SELL"
               ELSE IF news_score >= 3 THEN "BUY"
               ELSE IF news_score <= -3 THEN "SELL"
               ELSE "HOLD"

C1_Witness ==
    /\ dec # None /\ tech # None
    /\ BuyVotes = 2 /\ SellVotes < 3 /\ news_score <= -3
    /\ Kind = "SELL"

PriceFields == {"entry", "take_profit", "stop_loss"}

IndicatorFields ==
    {"price", "vwap", "rsi", "bb_upper", "bb_lower", "macd_hist",
     "macd_signal", "sma50", "volume"}

\* C2: with the snapshot absent, trading_decision returns ERROR with entry,
\* take_profit and stop_loss unset and the one rationale "No technical
\* data", whatever the NewsScore, and every indicator field and price
\* field of the report record is null.
C2_AbsentSnapshot ==
    tech = None =>
        /\ dec # None =>
              /\ Kind = "ERROR"
              /\ dec[1].entry = None /\ dec[1].tp = None /\ dec[1].sl = None
              /\ dec[1].logic = <<"No technical data">>
        /\ data # None =>
              \A f \in IndicatorFields \cup PriceFields : data[1][f] = None

C2_Witness ==
    /\ tech = None /\ news_score >= 3
    /\ data # None /\ data[1].decision = "ERROR"

\* C3: when the technical vote itself yields BUY or SELL the override does
\* not fire, whatever the NewsScore: the decision carries the technical
\* pricing, its risk_ratio is never "1:2" and its logic holds neither
\* "Strong bullish news" nor "Strong bearish news".
C3_NoOverrideOnTechnicalVote ==
    (dec # None /\ tech # None /\ (BuyVotes >= 3 \/ SellVotes >= 3)) =>
        LET cp == tech[1].current_price
            d == dec[1]
            strong == news_score > 2
            weak == news_score < -2
        IN /\ d.rr # "1:2"
           /\ \A i \in DOMAIN d.logic :
                 d.logic[i] \notin {"Strong bullish news", "Strong bearish news"}
           /\ IF BuyVotes >= 3
              THEN /\ d.decision = "BUY"
                   /\ d.entry = Some(cp * 9995)
                   /\ d.sl = Some(PyMax(Px(tech[1].bb_lower), cp * 9980))
                   /\ d.tp = Some(IF strong THEN cp * 10050 ELSE cp * 10030)
                   /\ d.rr = IF strong THEN "1:2.5" ELSE "1:1.5"
              ELSE /\ d.decision = "SELL"
                   /\ d.entry = Some(cp * 10005)
                   /\ d.sl = Some(PyMin(Px(tech[1].bb_upper), cp * 10020))
                   /\ d.tp = Some(IF weak THEN cp * 9950 ELSE cp * 9970)
                   /\ d.rr = IF weak THEN "1:2.5" ELSE "1:1.5"

C3_Witness ==
    /\ dec # None /\ tech # None
    /\ SellVotes >= 3 /\ news_score >= 3
    /\ Kind = "SELL"

\* C4: entry, take_profit and stop_loss, as trading_decision returns them
\* and as the report record carries them, are present exactly when the
\* final kind is BUY or SELL, for every snapshot (current_price 0 too).
C4_PricesIffBuyOrSell ==
    /\ dec # None =>
          \A f \in {"entry", "tp", "sl"} :
              (dec[1][f] # None) <=> (Kind \in {"BUY", "SELL"})
    /\ data # None =>
          \A f \in PriceFields :
              (data[1][f] # None) <=> (data[1].decision \in {"BUY", "SELL"})

\* C5, as claimed: whenever the final kind is not HOLD the last entry of
\* logic is the trend annotation, and on HOLD logic is exactly
\* "No strong signal".
C5_TrendUnlessHold ==
    dec # None =>
        /\ Kind # "HOLD" => (tech # None /\ Last(dec[1].logic) = Trend(tech[1]))
        /\ Kind = "HOLD" => dec[1].logic = <<"No strong signal">>

\* C5, amended: whenever the final kind is BUY or SELL (the override's
\* too) the last entry of logic is the trend annotation; on HOLD logic is
\* exactly "No strong signal"; on ERROR it is exactly "No technical data".
C5_TrendOnBuyOrSell ==
    dec # None =>
        /\ Kind \in {"BUY", "SELL"} =>
              (tech # None /\ Last(dec[1].logic) = Trend(tech[1]))
        /\ Kind = "HOLD" => dec[1].logic = <<"No strong signal">>
        /\ Kind = "ERROR" => dec[1].logic = <<"No technical data">>

C5_Witness ==
    /\ dec # None /\ tech # None
    /\ Kind = "SELL" /\ BuyVotes < 3 /\ SellVotes < 3
    /\ dec[1].logic = <<"No strong signal", " | ", "Strong bearish news",
                        " | ", "Bullish trend">>

\* C10: the two vectors never both hold 3 conditions: the band/RSI, MACD
\* and VWAP conditions exclude each other across the vectors and only the
\* volume condition is shared.
C10_VotesExclusive ==
    tech # None =>
        LET b == BuyCond(tech[1])
            s == SellCond(tech[1])
        IN /\ ~(BuyVotes >= 3 /\ SellVotes >= 3)
           /\ \A i \in {1, 2, 4} : ~(b[i] /\ s[i])
           /\ b[3] = s[3]

C10_Witness ==
    /\ dec # None /\ tech # None
    /\ BuyVotes = 3 /\ SellVotes = 2
    /\ Kind = "BUY"

---------------------------------------------------------------------------
(* Properties of analyze_news_sentiment (SpecNews) *)

First10(es) == [i \in 1..(IF Len(es) < 10 THEN Len(es) ELSE 10) |-> es[i]]

\* dropped: no publish time, or published more than 24 hours ago
Dropped(e) == e.pub = "missing" \/ (e.pub = "ok" /\ e.age > 24)

\* an entry the scorer cannot read: a publish time that did not parse, or
\* a recent entry without a title
Unreadable(e) == e.pub = "unparsed" \/ (~Dropped(e) /\ e.title = None)

ItemScore(e) ==
    IF Dropped(e) THEN 0
    ELSE LET base == IF e.pol > 10 THEN 1 ELSE IF e.pol < -10 THEN -1 ELSE 0
         IN IF HighImpact(e.title[1]) THEN 2 * base ELSE base

RECURSIVE SumScores(_)
SumScores(es) ==
    IF es = <<>> THEN 0 ELSE ItemScore(Head(es)) + SumScores(Tail(es))

\* C9: the NewsScore is the sum, over the first 10 entries only, of the
\* per-entry scores (a dropped entry counting nothing, the others +1, -1 or
\* 0 by polarity, doubled on a high-impact keyword); a retrieval or
\* parsing fault, and nothing else, replaces the sum by 0.
C9_ScoreIsSumOfFirstTen ==
    pc = "decide" =>
        LET es == First10(feed)
            unreadable == \E i \in DOMAIN es : Unreadable(es[i])
        IN /\ unreadable => "news" \in faults
           /\ "news" \in faults => news_score = 0
           /\ "news" \notin faults => news_score = SumScores(es)

C9_Witness ==
    /\ pc = "decide"
    /\ "news" \notin faults
    /\ Len(feed) = 11
    /\ feed[1] = Undated /\ feed[2] = FedRaises
    /\ feed[11] = FedRaises
    /\ news_score = 18

---------------------------------------------------------------------------
(* Properties of the cycle (Spec, FairSpec) *)

Stages == <<"fetch", "news", "decide", "sink">>

IsPrefix(s, t) == Len(s) <= Len(t) /\ \A i \in DOMAIN s : s[i] = t[i]

SinkAttempts == Cardinality({i \in DOMAIN steps : steps[i] = "sink"})

CycleSafe ==
    /\ pc # "crashed"
    /\ IsPrefix(steps, Stages)
    /\ pc = "done" => (steps = Stages /\ SinkAttempts = 1)
    /\ "market" \in faults => tech = None
    /\ "news" \in faults => news_score = 0
    /\ "sink" \in faults => save_ret = Some(FALSE)

\* C6: whatever faults occur, an invocation of main enters fetch, news,
\* decision and Sink in that order, no fault escapes it, each fault is
\* replaced by an absent snapshot, a score of 0 or a False save result, and
\* it reaches its end after exactly one Sink attempt.
C6_CycleCompletes == []CycleSafe /\ ((pc = "fetch") ~> (pc = "done"))

C6_Witness ==
    /\ pc = "done"
    /\ faults = {"market", "news", "sink"}
    /\ cycle = 2

\* a printed line carries the decision
DecisionLogged ==
    \E i \in DOMAIN out : \E j \in DOMAIN out[i] :
        out[i][j] \in {dec[1].decision, ToString(dec[1].logic)}

Printed(text) == \E i \in DOMAIN out : out[i][1] = text

RowPersisted ==
    \E t \in DOMAIN sheets : \E i \in DOMAIN sheets[t] :
        sheets[t][i] = Row(data[1])

\* C7, as claimed: when the Sink faults the decision has been computed and
\* is logged to the output, no row of the cycle is persisted and nothing
\* is retried.
C7_DecisionLoggedOnSinkFault ==
    (pc = "done" /\ "sink" \in faults) =>
        /\ dec # None /\ data # None
        /\ DecisionLogged
        /\ ~RowPersisted
        /\ SinkAttempts = 1

\* C7, amended: when the Sink faults the decision has been computed, the
\* output carries the failure ("Error saving to Google Sheets: ...", then
\* "Failed to save data") and not the decision, no row of the cycle is
\* persisted and nothing is retried.
C7_FailureLoggedOnSinkFault ==
    (pc = "done" /\ "sink" \in faults) =>
        /\ dec # None /\ data # None
        /\ Printed("Error saving to Google Sheets: ")
        /\ Last(out) = <<"Failed to save data">>
        /\ ~DecisionLogged
        /\ ~RowPersisted
        /\ SinkAttempts = 1

C7_Witness ==
    /\ pc = "done" /\ "sink" \in faults
    /\ dec # None /\ dec[1].decision = "BUY"
    /\ ws \in DOMAIN sheets /\ sheets[ws] = <<Header>>

\* C8: after any sequence of cycles, every daily worksheet there is has the
\* header as its first row and only report rows after it.
C8_HeaderFirst ==
    pc \in {"idle", "done"} =>
        \A t \in DOMAIN sheets :
            /\ Len(sheets[t]) >= 1
            /\ sheets[t][1] = Header
            /\ \A i \in 2..Len(sheets[t]) : sheets[t][i] # Header

====
